---- MODULE Spec2Model ----
(***************************************************************************)
(* A model of arraytools/geometry/geom.py: the measurement functions       *)
(* e_area, centroid, e_dist and e_leng over numpy arrays.                  *)
(*                                                                         *)
(* The functions are pure.  Every specification below draws one call's     *)
(* arguments in its initial state (pc = "call") and has one action, the    *)
(* call itself, which stores what the function returns or the exception    *)
(* it ends in (pc = "done").                                               *)
(*                                                                         *)
(* Arrays are records [ndim, data]: data is a sequence nested ndim deep,   *)
(* the last level holding the integer coordinates of a point.  Floating    *)
(* point values are modelled exactly:                                      *)
(*   - e_area / centroid values are rationals [num, den], den = 0 being    *)
(*     the IEEE non-finite values (0/0 NaN, 1/0 +inf, -1/0 -inf);          *)
(*   - e_dist / e_leng values are sums of square roots, kept as a          *)
(*     function from squarefree radicand to integer coefficient.           *)
(***************************************************************************)
EXTENDS Integers, Sequences, FiniteSets, TLC

VARIABLES pc, a, b, metric, np_ragged, result

vars == <<pc, a, b, metric, np_ragged, result>>

(* ---------------------------------------------------------------- bounds *)
\* Coordinates are drawn from 0..MaxCoord.
MaxCoord == 1
\* A ring given to e_area / centroid has at most MaxPts points.
MaxPts == 5
\* A stack of rings given to e_area has at most MaxBatch rings.
MaxBatch == 2

\* e_dist is given at most MaxDistPts points in each argument.
MaxDistPts == 2
\* A single polyline given to e_leng has at most MaxLinePts points.
MaxLinePts == 4
\* A sequence inside a batch given to e_leng has at most MaxPartPts points.
MaxPartPts == 3
\* A batch given to e_leng has at most MaxSeqs sequences or parts.
MaxSeqs == 2

\* "1D, 2D and 3D points": the dimensionalities e_dist is written for
MaxDim == 3

Coords == 0..MaxCoord

\* The coordinates of the points given to e_dist: two values let any two
\* points differ on any subset of the axes.
DistCoords == {0, 1}

\* The value of a variable a specification does not use.
None == [kind |-> "None"]

(* ------------------------------------------------------------ arithmetic *)
Abs(n) == IF n < 0 THEN -n ELSE n

Min(m, n) == IF m < n THEN m ELSE n

RECURSIVE GCD(_, _)
GCD(m, n) == IF n = 0 THEN m ELSE GCD(n, m % n)

RECURSIVE SumSeq(_)
\* np.sum of a one-dimensional integer array
SumSeq(s) == IF s = <<>> THEN 0 ELSE Head(s) + SumSeq(Tail(s))

\* A float holding the rational n/d (d > 0), in lowest terms.
Rat(n, d) ==
    LET g == GCD(Abs(n), d)
    IN  [num |-> n \div g, den |-> d \div g]

NaN == [num |-> 0, den |-> 0]

Inf(sign) == [num |-> sign, den |-> 0]

RatAbs(r) == [num |-> Abs(r.num), den |-> r.den]

RatNeg(r) == [num |-> -r.num, den |-> r.den]

RatMul(r, k) == Rat(r.num * k, r.den)

\* IEEE division of an integer n by a finite float r: no exception is raised
\* for r = 0, the quotient is NaN (0/0) or an infinity.
IntDivRat(n, r) ==
    IF r.num = 0
    THEN IF n = 0 THEN NaN ELSE Inf(IF n > 0 THEN 1 ELSE -1)
    ELSE IF r.num > 0
         THEN Rat(n * r.den, r.num)
         ELSE Rat(-(n * r.den), -r.num)

(* ---------------------------------------------------------------- arrays *)
\* A point of dimensionality d
Points(d) == [1..d -> Coords]

\* The sequences of exactly n points of dimensionality d
PointSeqs(n, d) == [1..n -> Points(d)]

Array(ndim, data) == [ndim |-> ndim, data |-> data]

\* a[..., c] of one sequence of points: the column c (0-based) as a sequence
Column(pts, c) == [k \in 1..Len(pts) |-> pts[k][c + 1]]

\* s[1:]
From1(s) == IF Len(s) <= 1 THEN <<>> ELSE SubSeq(s, 2, Len(s))

\* s[:-1]
ToLast(s) == IF Len(s) <= 1 THEN <<>> ELSE SubSeq(s, 1, Len(s) - 1)

\* np.einsum('...ij,...ij->...i', u, v) on one row: the sum of the products
Dot(u, v) == SumSeq([k \in 1..Len(u) |-> u[k] * v[k]])

Value(v) == [kind |-> "value", ndim |-> 0, val |-> v]

Error(exc) == [kind |-> "error", exc |-> exc]

(* ---------------------------------------------------------------- e_area *)
\* e0 - e1 of one ring: sum over consecutive pairs of x[k+1]*y[k] - x[k]*y[k+1]
RingCrossMutant(pts) ==
    LET xs == Column(pts, 0)
        ys == Column(pts, 1)
    IN  IF pts = <<>> THEN 0
        ELSE Dot(From1(xs) \o <<xs[1]>>, ys) - Dot(xs, From1(ys) \o <<ys[1]>>)

RingCrossDropLast(pts) ==
    LET xs == ToLast(Column(pts, 0))
        ys == ToLast(Column(pts, 1))
    IN  Dot(From1(xs), ToLast(ys)) - Dot(ToLast(xs), From1(ys))

RingCross(pts) ==
    LET xs == Column(pts, 0)
        ys == Column(pts, 1)
        x0 == From1(xs)
        y0 == ToLast(ys)
        x1 == ToLast(xs)
        y1 == From1(ys)
    IN  Dot(x0, y0) - Dot(x1, y1)

\* The rings of a rank-2 (one ring) or rank-3 (a stack of rings) array, as
\* np.atleast_2d leaves them: one row of e0 and e1 per ring.
Rows(arr) == IF arr.ndim = 2 THEN <<arr.data>> ELSE arr.data

\* area = abs(np.sum((e0 - e1)*0.5)): one sum over every ring of the input
e_area(arr) ==
    IF arr.ndim = 1
    THEN Error("IndexError")
    ELSE LET rows == Rows(arr)
             halves == [i \in 1..Len(rows) |-> RingCross(rows[i])]
         IN  Value(RatAbs(Rat(SumSeq(halves), 2)))

(* -------------------------------------------------------------- centroid *)
centroid(arr) ==
    LET pts == arr.data
        x == Column(pts, 0)
        y == Column(pts, 1)
        t == [k \in 1..(Len(pts) - 1) |-> x[k] * y[k + 1] - y[k] * x[k + 1]]
        a_6 == RatMul(e_area(arr).val, 6)
        sx == SumSeq([k \in 1..(Len(pts) - 1) |-> (x[k] + x[k + 1]) * t[k]])
        sy == SumSeq([k \in 1..(Len(pts) - 1) |-> (y[k] + y[k + 1]) * t[k]])
        x_c == IntDivRat(sx, a_6)
        y_c == IntDivRat(sy, a_6)
    IN  [kind |-> "value", ndim |-> 1, val |-> <<RatNeg(x_c), RatNeg(y_c)>>]

(* ----------------------------------------------------- sums of roots *)
\* A non-negative float produced by np.sqrt and np.sum over integers is a
\* sum of c * sqrt(s), s squarefree: the function s |-> c (c > 0).  Two
\* such sums are the same real number exactly when the functions are equal.
SurdZero == [s \in {} |-> 0]

\* The largest c with c*c dividing d (d > 0)
SquarePart(d) ==
    CHOOSE c \in 1..d :
        /\ d % (c * c) = 0
        /\ \A e \in (c + 1)..d : d % (e * e) # 0

\* The integer d >= 0 as a float
IntSurd(d) == IF d = 0 THEN SurdZero ELSE (1 :> d)

\* np.sqrt(d) of an integer d >= 0
Sqrt(d) ==
    IF d = 0
    THEN SurdZero
    ELSE LET c == SquarePart(d) IN ((d \div (c * c)) :> c)

SurdAdd(u, v) ==
    [s \in (DOMAIN u) \cup (DOMAIN v) |->
        (IF s \in DOMAIN u THEN u[s] ELSE 0) + (IF s \in DOMAIN v THEN v[s] ELSE 0)]

RECURSIVE SurdSum(_)
\* np.sum of a one-dimensional array of such floats
SurdSum(s) == IF s = <<>> THEN SurdZero ELSE SurdAdd(Head(s), SurdSum(Tail(s)))

RECURSIVE Flatten(_)
\* The rows of a sequence of sequences, one after the other
Flatten(ss) == IF ss = <<>> THEN <<>> ELSE Head(ss) \o Flatten(Tail(ss))

(* ---------------------------------------------------------------- e_dist *)
\* a.reshape(np.prod(a.shape[:-1]), 1, a.shape[-1]) (a 1-D point becomes
\* (1, 1, D)) and, for b, np.atleast_2d and the same flattening: the points
\* of the array, one after the other.
PointRows(arr) ==
    IF arr.ndim = 1 THEN <<arr.data>>
    ELSE IF arr.ndim = 2 THEN arr.data
    ELSE Flatten(arr.data)

\* The length of the last axis
PointDim(arr) == Len(PointRows(arr)[1])

\* Coordinate k of point p after numpy's broadcast of the last axis: an axis
\* of length 1 is repeated.
Bcast(p, k) == IF Len(p) = 1 THEN p[1] ELSE p[k]

\* np.einsum('ijk,ijk->ij', diff, diff) at (i, j), diff = a - b
SqDiff(p, q) ==
    LET n == IF Len(p) > Len(q) THEN Len(p) ELSE Len(q)
    IN  SumSeq([k \in 1..n |-> (Bcast(p, k) - Bcast(q, k)) * (Bcast(p, k) - Bcast(q, k))])

\* metric[:1]
FirstChar(m) == SubSeq(m, 1, Min(1, Len(m)))

\* if metric[:1] == 'e': dist_arr = np.sqrt(dist_arr)
UseSqrtAnyCase(m) == FirstChar(m) \in {<<"e">>, <<"E">>}

UseSqrt(m) == FirstChar(m) = <<"e">>

\* np.squeeze of an M x N array: every axis of length 1 is dropped
Squeeze(mat) ==
    LET m == Len(mat)
        n == Len(mat[1])
    IN  IF m = 1 /\ n = 1 THEN [kind |-> "value", ndim |-> 0, val |-> mat[1][1]]
        ELSE IF m = 1 THEN [kind |-> "value", ndim |-> 1, val |-> mat[1]]
        ELSE IF n = 1 THEN [kind |-> "value", ndim |-> 1, val |-> [i \in 1..m |-> mat[i][1]]]
        ELSE [kind |-> "value", ndim |-> 2, val |-> mat]

\* dist_arr before the squeeze: row i is a's point i, column j is b's point j
DistArrTransposed(pa, pb, m) ==
    [j \in 1..Len(pb) |-> [i \in 1..Len(pa) |->
        IF UseSqrt(m) THEN Sqrt(SqDiff(pa[i], pb[j])) ELSE IntSurd(SqDiff(pa[i], pb[j]))]]

DistArr(pa, pb, m) ==
    [i \in 1..Len(pa) |-> [j \in 1..Len(pb) |->
        IF UseSqrt(m) THEN Sqrt(SqDiff(pa[i], pb[j])) ELSE IntSurd(SqDiff(pa[i], pb[j]))]]

e_dist(arr_a, arr_b, m) ==
    LET pa == PointRows(arr_a)
        pb == PointRows(arr_b)
        da == PointDim(arr_a)
        db == PointDim(arr_b)
    IN  IF da # db /\ da # 1 /\ db # 1
        THEN Error("ValueError")
        ELSE Squeeze(DistArr(pa, pb, m))

(* ---------------------------------------------------------------- e_leng *)
\* _cal(diff), diff = g[:, 0:-1] - g[:, 1:] of a K x n x D array g: d_leng
\* is the K x (n-1) array of the distances between consecutive points,
\* length the sum of all of them.
SegLengths(pts) ==
    [j \in 1..(Len(pts) - 1) |-> Sqrt(SqDiff(pts[j], pts[j + 1]))]

_calDropLast(g) ==
    LET d_leng == [k \in 1..Len(g) |-> ToLast(SegLengths(g[k]))]
    IN  [length |-> SurdSum(Flatten(d_leng)), d_leng |-> d_leng]

_cal(g) ==
    LET d_leng == [k \in 1..Len(g) |-> SegLengths(g[k])]
    IN  [length |-> SurdSum(Flatten(d_leng)), d_leng |-> d_leng]

\* Whether np.atleast_2d can make a rectangular numeric array of the nested
\* sequence: every sequence of a rank-3 input has the same length, and every
\* part of a rank-4 input the same number of sequences of the same length.
Rectangular(arr) ==
    IF arr.ndim <= 2 THEN TRUE
    ELSE IF arr.ndim = 3
    THEN \A i, j \in 1..Len(arr.data) : Len(arr.data[i]) = Len(arr.data[j])
    ELSE /\ \A i, j \in 1..Len(arr.data) : Len(arr.data[i]) = Len(arr.data[j])
         /\ \A i, j \in 1..Len(arr.data) :
              \A k \in 1..Len(arr.data[i]) : \A l \in 1..Len(arr.data[j]) :
                  Len(arr.data[i][k]) = Len(arr.data[j][l])

\* a.shape[0] after np.atleast_2d.  A bare point becomes one row.  An
\* object array has the leading axes on which the nested sequence agrees:
\* one axis (made one row by np.atleast_2d) unless the input is rank 4 and
\* every part has the same number of sequences.
Shape0(arr) ==
    IF arr.ndim = 1 THEN 1
    ELSE IF Rectangular(arr) THEN Len(arr.data)
    ELSE IF /\ arr.ndim = 4
            /\ \A i, j \in 1..Len(arr.data) : Len(arr.data[i]) = Len(arr.data[j])
         THEN Len(arr.data)
         ELSE 1

Pair(length, diffs) == [kind |-> "pair", length |-> length, diffs |-> diffs]

RECURSIVE PartsLength(_)
\* length += leng over the parts of a rank-4 array
PartsLength(parts) ==
    IF parts = <<>> THEN SurdZero
    ELSE SurdAdd(_cal(Head(parts)).length, PartsLength(Tail(parts)))

\* e_leng(a).  ragged says what this numpy makes of a nested sequence that
\* is not rectangular: "raise" (ValueError, numpy >= 1.24) or "object" (an
\* array of dtype object over the leading axes that do agree, whose elements
\* are lists: subtracting them is a TypeError).
e_leng(arr, ragged) ==
    IF ~Rectangular(arr) /\ ragged = "raise" THEN Error("ValueError")
    ELSE IF Shape0(arr) = 1 THEN Value(SurdZero)
    ELSE IF ~Rectangular(arr) THEN Error("TypeError")
    ELSE IF arr.ndim = 2
    THEN LET r == _cal(<<arr.data>>) IN Pair(r.length, <<r.d_leng>>)
    ELSE IF arr.ndim = 3
    THEN LET r == _cal(arr.data) IN Pair(r.length, <<r.d_leng>>)
    ELSE Pair(PartsLength(arr.data),
              [i \in 1..Len(arr.data) |-> _cal(arr.data[i]).d_leng])

(* -------------------------------------------------------- specifications *)
\* n copies of one ring: an array of shape n x len x 2
Stack(ring, n) == [i \in 1..n |-> ring]

\* A closed ring repeats its first point as its last.
Closed(ring) == Len(ring) >= 2 /\ ring[1] = ring[Len(ring)]

\* The arguments of one call of e_area: a bare sequence (rank 1), one ring of
\* 0..MaxPts points (rank 2), or a stack of 1..MaxBatch copies of a closed
\* ring (rank 3).
AreaInput(arr) ==
    \/ \E n \in 0..2 : \E s \in [1..n -> Coords] : arr = Array(1, s)
    \/ \E n \in 0..MaxPts : \E r \in PointSeqs(n, 2) : arr = Array(2, r)
    \/ \E n \in 2..MaxPts : \E r \in PointSeqs(n - 1, 2) : \E k \in 1..MaxBatch :
          arr = Array(3, Stack(Append(r, r[1]), k))

InitArea ==
    /\ pc = "call"
    /\ AreaInput(a)
    /\ b = None
    /\ metric = None
    /\ np_ragged = None
    /\ result = None

CallArea ==
    /\ pc = "call"
    /\ result' = e_area(a)
    /\ pc' = "done"
    /\ UNCHANGED <<a, b, metric, np_ragged>>

SpecArea == InitArea /\ [][CallArea]_vars

InitCentroid ==
    /\ pc = "call"
    /\ \E n \in 0..MaxPts : \E r \in PointSeqs(n, 2) : a = Array(2, r)
    /\ b = None
    /\ metric = None
    /\ np_ragged = None
    /\ result = None

CallCentroid ==
    /\ pc = "call"
    /\ result' = centroid(a)
    /\ pc' = "done"
    /\ UNCHANGED <<a, b, metric, np_ragged>>

SpecCentroid == InitCentroid /\ [][CallCentroid]_vars

(* ------------------------------------------------ e_dist specifications *)
DistPoints(d) == [1..d -> DistCoords]

\* The metric strings, as sequences of characters
Metrics ==
    { <<"e">>, <<"e", "u">>, <<"e", "u", "c", "l", "i", "d", "e", "a", "n">>,
      <<"E", "u", "c", "l", "i", "d", "e", "a", "n">>,
      <<"E", "U", "C", "L", "I", "D", "E", "A", "N">>,
      <<"s">>, <<"s", "q">>, <<"S", "q">>,
      <<"s", "q", "e", "u", "c", "l", "i", "d", "e", "a", "n">> }

SqMetrics == { <<"s", "q", "e", "u", "c", "l", "i", "d", "e", "a", "n">> }

\* One argument of e_dist: a bare point (rank 1), 1..MaxDistPts points
\* (rank 2) or two groups of one point each (rank 3), of dimensionality
\* 1..MaxDim.
DistInput(arr) ==
    \E d \in 1..MaxDim :
        \/ \E p \in DistPoints(d) : arr = Array(1, p)
        \/ \E n \in 1..MaxDistPts : \E ps \in [1..n -> DistPoints(d)] : arr = Array(2, ps)
        \/ \E p, q \in DistPoints(d) : arr = Array(3, << <<p>>, <<q>> >>)

InitDist ==
    /\ pc = "call"
    /\ DistInput(a)
    /\ DistInput(b)
    /\ metric \in Metrics
    /\ np_ragged = None
    /\ result = None

CallDist ==
    /\ pc = "call"
    /\ result' = e_dist(a, b, metric)
    /\ pc' = "done"
    /\ UNCHANGED <<a, b, metric, np_ragged>>

SpecDist == InitDist /\ [][CallDist]_vars

\* e_dist on M points against N points of one dimensionality, squared metric
InitDistPairs ==
    /\ pc = "call"
    /\ \E d \in 1..MaxDim : \E m, n \in 1..MaxDistPts :
          /\ \E ps \in [1..m -> DistPoints(d)] : a = Array(2, ps)
          /\ \E ps \in [1..n -> DistPoints(d)] : b = Array(2, ps)
    /\ metric \in SqMetrics
    /\ np_ragged = None
    /\ result = None

SpecDistPairs == InitDistPairs /\ [][CallDist]_vars

(* ------------------------------------------------ e_leng specifications *)
\* The argument of one call of e_leng: a bare point (rank 1), a polyline
\* (rank 2), one documented-shape line or MaxSeqs sequences (rank 3), or
\* 1..MaxSeqs parts of one sequence each (rank 4).  The sequences of a
\* batch may differ in length: the nested sequence is then not rectangular.
LengInput(arr) ==
    \/ \E p \in Points(2) : arr = Array(1, p)
    \/ \E n \in 1..MaxLinePts : \E s \in PointSeqs(n, 2) : arr = Array(2, s)
    \/ \E n \in 1..MaxLinePts : \E s \in PointSeqs(n, 2) : arr = Array(3, <<s>>)
    \/ \E m, n \in 1..(MaxPartPts - 1) :
          \E s \in PointSeqs(m, 2) : \E t \in PointSeqs(n, 2) : arr = Array(3, <<s, t>>)
    \/ \E n \in 1..MaxPartPts : \E s \in PointSeqs(n, 2) : arr = Array(4, << <<s>> >>)
    \/ \E k \in 2..MaxSeqs : \E ns \in [1..k -> 1..MaxPartPts] :
          \E ps \in [1..k -> PointSeqs(MaxPartPts, 2)] :
              arr = Array(4, [i \in 1..k |-> << SubSeq(ps[i], 1, ns[i]) >>])

InitLeng ==
    /\ pc = "call"
    /\ LengInput(a)
    /\ b = None
    /\ metric = None
    /\ np_ragged \in {"raise", "object"}
    /\ result = None

CallLeng ==
    /\ pc = "call"
    /\ result' = e_leng(a, np_ragged)
    /\ pc' = "done"
    /\ UNCHANGED <<a, b, metric, np_ragged>>

SpecLeng == InitLeng /\ [][CallLeng]_vars

\* e_leng on one polyline of 1..MaxLinePts points
InitLengLine ==
    /\ pc = "call"
    /\ \E n \in 1..MaxLinePts : \E s \in PointSeqs(n, 2) : a = Array(2, s)
    /\ b = None
    /\ metric = None
    /\ np_ragged \in {"raise", "object"}
    /\ result = None

SpecLengLine == InitLengLine /\ [][CallLeng]_vars

(* ------------------------------------------------------------ properties *)
UnitSquare == << <<0, 0>>, <<0, 1>>, <<1, 1>>, <<1, 0>>, <<0, 0>> >>

Reverse(s) == [k \in 1..Len(s) |-> s[Len(s) + 1 - k]]

One == Rat(1, 1)

\* Sum over k in [0, n-2] of x[k+1]*y[k] - x[k]*y[k+1] (0-based k)
PairSum(pts) ==
    SumSeq([k \in 1..(Len(pts) - 1) |->
        pts[k + 1][1] * pts[k][2] - pts[k][1] * pts[k + 1][2]])

\* The elements of a result along its leading axis: a scalar counts as an
\* array of one element.
Elements(res) == IF res.ndim = 0 THEN <<res.val>> ELSE res.val

\* C1: e_area of a stack of N >= 1 identical closed unit squares (shape
\* N x 5 x 2) is an array of N elements, each the area of the one ring, 1.0.
C1_AreaBatching ==
    (pc = "done" /\ a.ndim = 3 /\ a.data = Stack(UnitSquare, Len(a.data)))
        => /\ result.kind = "value"
           /\ Len(Elements(result)) = Len(a.data)
           /\ \A i \in 1..Len(a.data) : Elements(result)[i] = One

\* C2: e_area of one ring of n >= 2 points is half the absolute value of the
\* sum over consecutive pairs of x[k+1]*y[k] - x[k]*y[k+1], with no pair
\* from the last point back to the first; so it is non-negative, the same
\* for the reversed ring, and 1.0 for the closed unit square.
C2_AreaShoelace ==
    (pc = "done" /\ a.ndim = 2 /\ Len(a.data) >= 2)
        => /\ result = Value(Rat(Abs(PairSum(a.data)), 2))
           /\ result.val.num >= 0
           /\ e_area(Array(2, Reverse(a.data))) = result
           /\ (a.data = UnitSquare => result.val = One)

C2_Witness ==
    /\ pc = "done"
    /\ a = Array(2, UnitSquare)
    /\ result = Value(One)

\* Twice the signed area of a ring, positive for a counter-clockwise ring:
\* the sum of x_i*y_{i+1} - x_{i+1}*y_i
SignedArea2(pts) ==
    SumSeq([k \in 1..(Len(pts) - 1) |->
        pts[k][1] * pts[k + 1][2] - pts[k + 1][1] * pts[k][2]])

\* Cx (c = 1) or Cy (c = 2) of the standard polygon centroid:
\* (1/6A) * sum (c_i + c_{i+1}) (x_i*y_{i+1} - x_{i+1}*y_i), 6A = 3 * 2A
StandardCentroid(pts, c) ==
    LET s == SumSeq([k \in 1..(Len(pts) - 1) |->
                 (pts[k][c] + pts[k + 1][c])
                     * (pts[k][1] * pts[k + 1][2] - pts[k + 1][1] * pts[k][2])])
        a2 == SignedArea2(pts)
    IN  IF a2 > 0 THEN Rat(s, 3 * a2) ELSE Rat(-s, 3 * (-a2))

\* C3: centroid of a closed ring of nonzero area, clockwise or
\* counter-clockwise, is the standard area-weighted centroid (signed area
\* as divisor), and the closed unit square gives (0.5, 0.5).  (The standard
\* centroid of a ring and of its reversal are the same point, so the claim's
\* "same centroid for the reversed ring" follows from this for both rings.)
C3_CentroidStandard ==
    (pc = "done" /\ Closed(a.data) /\ SignedArea2(a.data) # 0)
        => /\ result.val = <<StandardCentroid(a.data, 1), StandardCentroid(a.data, 2)>>
           /\ (a.data = UnitSquare => result.val = <<Rat(1, 2), Rat(1, 2)>>)

\* C4: centroid of a degenerate ring (e_area is 0) ends in the error
\* DegenerateGeometry: it returns no point.
C4_DegenerateRaises ==
    (pc = "done" /\ Len(a.data) >= 2 /\ e_area(a).val.num = 0)
        => /\ result.kind = "error"
           /\ result.exc = "DegenerateGeometry"

\* C5: e_dist of arguments whose points differ in dimensionality (any two
\* distinct values among 1, 2, 3) ends in an error and returns no distance.
C5_DimMismatchIsError ==
    (pc = "done" /\ PointDim(a) # PointDim(b)) => result.kind = "error"

\* The squared distance of two points of one dimensionality
SqEuclid(p, q) == SumSeq([k \in 1..Len(p) |-> (p[k] - q[k]) * (p[k] - q[k])])

\* Entry (i, j) of the distance result of m points against n points, once
\* the axes of length 1 are dropped
Entry(res, m, n, i, j) ==
    IF res.ndim = 0 THEN res.val
    ELSE IF res.ndim = 2 THEN res.val[i][j]
    ELSE IF m = 1 THEN res.val[j] ELSE res.val[i]

\* C6: the metric is chosen by its first letter whatever its case: 'e' or
\* 'E' gives the Euclidean distance (square root applied), 's' or 'S' the
\* squared distance.
C6_MetricPrefixAnyCase ==
    (pc = "done" /\ a.ndim = 2 /\ b.ndim = 2 /\ PointDim(a) = PointDim(b))
        => \A i \in 1..Len(a.data) : \A j \in 1..Len(b.data) :
              LET d == SqEuclid(a.data[i], b.data[j])
                  e == Entry(result, Len(a.data), Len(b.data), i, j)
              IN  /\ FirstChar(metric) \in {<<"e">>, <<"E">>} => e = Sqrt(d)
                  /\ FirstChar(metric) \in {<<"s">>, <<"S">>} => e = IntSurd(d)

\* C7: e_dist of M points against N points of one dimensionality, squared
\* metric, is the M x N matrix of the distances of a[i] and b[j] (a indexes
\* the rows), a vector when exactly one of M, N is 1, a scalar when both
\* are; e_dist(b, a) is its transpose, and for single points e_dist(p, q) =
\* e_dist(q, p) and e_dist(p, p) = 0.
C7_DistMatrix ==
    (pc = "done" /\ a.ndim = 2 /\ b.ndim = 2 /\ PointDim(a) = PointDim(b)
        /\ FirstChar(metric) = <<"s">>)
        => LET m == Len(a.data)
               n == Len(b.data)
               swapped == e_dist(b, a, metric)
           IN  /\ result.kind = "value"
               /\ result.ndim = (IF m = 1 THEN 0 ELSE 1) + (IF n = 1 THEN 0 ELSE 1)
               /\ result.ndim = 2 => Len(result.val) = m /\ Len(result.val[1]) = n
               /\ result.ndim = 1 => Len(result.val) = (IF m = 1 THEN n ELSE m)
               /\ \A i \in 1..m : \A j \in 1..n :
                     /\ Entry(result, m, n, i, j) = IntSurd(SqEuclid(a.data[i], b.data[j]))
                     /\ Entry(swapped, n, m, j, i) = Entry(result, m, n, i, j)
               /\ swapped.ndim = result.ndim
               /\ (m = 1 /\ n = 1 /\ a = b) => result.val = SurdZero

C7_Witness ==
    /\ pc = "done"
    /\ a.ndim = 2 /\ b.ndim = 2
    /\ Len(a.data) = 2 /\ Len(b.data) = 2
    /\ result.kind = "value" /\ result.ndim = 2
    /\ result.val[1][2] # result.val[2][1]

\* The distance of two points, as a float
Distance(p, q) == Sqrt(SqEuclid(p, q))

\* C8: e_leng of a rank-3 batch of K >= 1 sequences of n >= 2 points (shape
\* K x n x D, the documented (1, 2, 2) and (1, 4, 2) included) is the pair
\* (total, per-segment lengths), the K x (n-1) distances of consecutive
\* points and their sum; a rank-2 sequence S gives what the batch [S] gives.
C8_Rank3Lengths ==
    (pc = "done" /\ a.ndim = 3 /\ Rectangular(a) /\ Len(a.data[1]) >= 2)
        => LET segs == [k \in 1..Len(a.data) |->
                           [j \in 1..(Len(a.data[k]) - 1) |->
                               Distance(a.data[k][j], a.data[k][j + 1])]]
           IN  /\ result.kind = "pair"
               /\ result.diffs = <<segs>>
               /\ result.length = SurdSum(Flatten(segs))
               /\ Len(a.data) = 1 => result = e_leng(Array(2, a.data[1]), np_ragged)

\* Three points on one line, consecutive ones 1 unit apart
Collinear3(s) ==
    /\ Len(s) = 3
    /\ SqEuclid(s[1], s[2]) = 1
    /\ SqEuclid(s[2], s[3]) = 1
    /\ (s[2][1] - s[1][1]) * (s[3][2] - s[1][2])
          = (s[2][2] - s[1][2]) * (s[3][1] - s[1][1])

\* C9: e_leng of a batch of two parts, A of 3 collinear points 1 unit apart
\* and B of a single point, is grand total 2 with one segment array per part
\* (2 segments for A, none for B): parts of differing point counts are
\* processed part by part and their totals added.
C9_RaggedParts ==
    (pc = "done" /\ a.ndim = 4 /\ Len(a.data) = 2
        /\ Len(a.data[1]) = 1 /\ Len(a.data[2]) = 1
        /\ Collinear3(a.data[1][1]) /\ Len(a.data[2][1]) = 1)
        => /\ result.kind = "pair"
           /\ result.length = IntSurd(2)
           /\ Len(result.diffs) = 2
           /\ Len(result.diffs[1][1]) = 2
           /\ Len(result.diffs[2][1]) = 0

\* Consecutive points differ on at most one axis
AxisAligned(s) ==
    \A k \in 1..(Len(s) - 1) : s[k][1] = s[k + 1][1] \/ s[k][2] = s[k + 1][2]

\* C10: for a polyline of n >= 3 points with axis-aligned segments and every
\* interior vertex k, the total e_leng gives for the whole polyline is the
\* total for points[0..k] plus the total for points[k..n-1].
C10_LengthAdditive ==
    (pc = "done" /\ a.ndim = 2 /\ Len(a.data) >= 3 /\ AxisAligned(a.data))
        => /\ result.kind = "pair"
           /\ \A k \in 2..(Len(a.data) - 1) :
                 LET part1 == e_leng(Array(2, SubSeq(a.data, 1, k)), np_ragged)
                     part2 == e_leng(Array(2, SubSeq(a.data, k, Len(a.data))), np_ragged)
                 IN  /\ part1.kind = "pair"
                     /\ part2.kind = "pair"
                     /\ result.length = SurdAdd(part1.length, part2.length)

C10_Witness ==
    /\ pc = "done"
    /\ a = Array(2, << <<0, 0>>, <<0, 1>>, <<1, 1>> >>)
    /\ result.kind = "pair"
    /\ result.length = IntSurd(2)

\* The closed ring started at another vertex: the closing point is dropped,
\* the vertex cycle starts s vertices later, and the new first point is
\* repeated as the last.
Rotate(ring, s) ==
    LET m == Len(ring) - 1
        open == [k \in 1..m |-> ring[((k - 1 + s) % m) + 1]]
    IN  Append(open, open[1])

\* C11: e_area of a closed ring (first point repeated as last) equals e_area
\* of every rotation of the ring's starting vertex.
C11_AreaRotation ==
    (pc = "done" /\ a.ndim = 2 /\ Closed(a.data))
        => \A s \in 0..(Len(a.data) - 2) :
              e_area(Array(2, Rotate(a.data, s))) = result

C11_Witness ==
    /\ pc = "done"
    /\ a = Array(2, << <<0, 0>>, <<1, 0>>, <<0, 1>>, <<0, 0>> >>)
    /\ Rotate(a.data, 1) # a.data
    /\ result = Value(Rat(1, 2))
    /\ e_area(Array(2, Rotate(a.data, 1))) = result

\* C12: e_area of an empty input (the 0 x 2 array or the bare empty
\* sequence) or of a single point returns area 0 and ends in no error.
C12_EmptyAreaZero ==
    (pc = "done" /\ (\/ a.ndim = 1 /\ a.data = <<>>
                     \/ a.ndim = 2 /\ Len(a.data) <= 1))
        => result = Value(Rat(0, 1))

====
